---- MODULE Spec2Model ----
(***************************************************************************)
(* A model of src/src/main.rs: the frame-driven game state of a terminal   *)
(* falling-block game (GameState::update, the orientation state machine,   *)
(* the gravity timer), the figure catalogue and the board, the dual-column *)
(* composition at the end of GameState::update_gui, and the frame loop of  *)
(* main.                                                                   *)
(*                                                                         *)
(* Instants and Durations are counted in whole milliseconds, except the    *)
(* frame budget of the loop, which is counted in nanoseconds.              *)
(***************************************************************************)
EXTENDS Integers, Sequences, FiniteSets, TLC

(***************************************************************************)
(* Bounds of the model.                                                    *)
(***************************************************************************)
\* Frames the loop of main starts in one run.
MaxFrames == 2
\* Terminal events the process reads in one run.
MaxEvents == 3

(***************************************************************************)
(* Primitive types.                                                        *)
(***************************************************************************)
\* Position<i8>: the range of the coordinates.
I8_MIN == -128
I8_MAX == 127
\* lines_hit, score: u16.
U16_MAX == 65535

\* i8 addition as the release profile computes it (two's complement wrap).
WrapI8(v) == ((v + 128) % 256) - 128

\* Whether v is outside i8: `+= 1` / `-= 1` panics there when the build
\* checks overflow (debug profile) and wraps otherwise.
OverflowsI8(v) == v < I8_MIN \/ v > I8_MAX

\* enum Direction
Direction == {"South", "East", "North", "West"}

\* KeyCode values the model distinguishes; "Up" stands for every key code
\* GameState::update has no arm for.
KeyCodes == {"Esc", "Down", "Left", "Right", "q", "e", "Up"}

ReleaseEvent(code) == [event |-> "Key", kind |-> "Release", code |-> code]
PressEvent(code) == [event |-> "Key", kind |-> "Press", code |-> code]
ResizeEvent == [event |-> "Resize", kind |-> "None", code |-> "None"]

\* Terminal events a poll can find pending.
Events == {ReleaseEvent(c) : c \in KeyCodes} \cup {PressEvent("Esc"), ResizeEvent}

\* Sequences over S of length at most n.
SeqsUpTo(S, n) == UNION {[1..k -> S] : k \in 0..n}

(***************************************************************************)
(* Size, Board, Figure.                                                    *)
(***************************************************************************)
\* Size::area
area(size) == size.height * size.width

\* A faulty Board::new, the cells counted as height + width: C10 fails of it.
Board_new_perimeter(size) ==
  [size |-> size, cells |-> [i \in 1..(size.height + size.width) |-> 0]]

\* Board::new: bitvec![0; size.area()]
Board_new(size) == [size |-> size, cells |-> [i \in 1..area(size) |-> 0]]

\* bitarr![const u8, Lsb0; ...] in a BitArray<[u8; 1]>: the listed bits from
\* index 0 on, the rest of the one-byte storage zero. A BitArray is as long
\* as its storage.
FIGURE_STORAGE_BITS == 8
bitarr(bits) == [i \in 1..FIGURE_STORAGE_BITS |-> IF i <= Len(bits) THEN bits[i] ELSE 0]

\* Figure::VARIANTS: I, J, L, T, S, Z, Square.
VARIANTS ==
  << [size |-> [height |-> 4, width |-> 1], cells |-> bitarr(<<1, 1, 1, 1>>)],
     [size |-> [height |-> 3, width |-> 2], cells |-> bitarr(<<0, 1, 0, 1, 1, 1>>)],
     [size |-> [height |-> 3, width |-> 2], cells |-> bitarr(<<1, 0, 1, 0, 1, 1>>)],
     [size |-> [height |-> 2, width |-> 3], cells |-> bitarr(<<1, 1, 1, 0, 1, 0>>)],
     [size |-> [height |-> 2, width |-> 3], cells |-> bitarr(<<0, 1, 1, 1, 1, 0>>)],
     [size |-> [height |-> 2, width |-> 3], cells |-> bitarr(<<1, 1, 0, 0, 1, 1>>)],
     [size |-> [height |-> 2, width |-> 2], cells |-> bitarr(<<1, 1, 1, 1>>)] >>

\* Figure::get_random: the indices `choose` can return.
get_random == 1..Len(VARIANTS)

(***************************************************************************)
(* GameState: the pure parts.                                              *)
(***************************************************************************)
BASE_FIGURE_LOWERING_DURATION == 2500
MIN_FIGURE_LOWERING_DURATION == 250

\* std::cmp::max
max(a, b) == IF a >= b THEN a ELSE b

\* A faulty rotate_current_figure, the (West, true) arm left at West: C5
\* fails of it.
rotate_stuck_at_West(rotation, clockwise) ==
  CASE rotation = "South" /\ ~clockwise -> "West"
    [] rotation = "South" /\ clockwise -> "East"
    [] rotation = "East" /\ ~clockwise -> "South"
    [] rotation = "East" /\ clockwise -> "North"
    [] rotation = "North" /\ ~clockwise -> "East"
    [] rotation = "North" /\ clockwise -> "West"
    [] rotation = "West" /\ ~clockwise -> "North"
    [] rotation = "West" /\ clockwise -> "West"

\* A faulty rotate_current_figure, the two directions exchanged: still a
\* 4-cycle, and C6 fails of it.
rotate_directions_exchanged(rotation, clockwise) ==
  CASE rotation = "South" /\ clockwise -> "West"
    [] rotation = "South" /\ ~clockwise -> "East"
    [] rotation = "East" /\ clockwise -> "South"
    [] rotation = "East" /\ ~clockwise -> "North"
    [] rotation = "North" /\ clockwise -> "East"
    [] rotation = "North" /\ ~clockwise -> "West"
    [] rotation = "West" /\ clockwise -> "North"
    [] rotation = "West" /\ ~clockwise -> "South"

\* GameState::rotate_current_figure: the new current_figure_rotation.
rotate_current_figure(rotation, clockwise) ==
  CASE rotation = "South" /\ ~clockwise -> "West"
    [] rotation = "South" /\ clockwise -> "East"
    [] rotation = "East" /\ ~clockwise -> "South"
    [] rotation = "East" /\ clockwise -> "North"
    [] rotation = "North" /\ ~clockwise -> "East"
    [] rotation = "North" /\ clockwise -> "West"
    [] rotation = "West" /\ ~clockwise -> "North"
    [] rotation = "West" /\ clockwise -> "South"

\* A faulty level, counted from 0: C14 fails of it.
get_level_from_zero(hit, checks) == [panic |-> FALSE, value |-> hit]

\* GameState::get_level: lines_hit + 1 in u16. At lines_hit = 65535 the sum
\* overflows: a panic when the build checks overflow, 0 otherwise.
get_level(hit, checks) ==
  IF hit + 1 > U16_MAX
  THEN [panic |-> checks, value |-> 0]
  ELSE [panic |-> FALSE, value |-> hit + 1]

\* Duration - Duration: panics ("overflow when subtracting durations") in
\* every build when the result would be negative.
duration_sub(a, b) ==
  IF b > a THEN [panic |-> TRUE, ms |-> 0] ELSE [panic |-> FALSE, ms |-> a - b]

\* GameState::get_figure_lowering_duration, in milliseconds.
get_figure_lowering_duration(hit, checks) ==
  LET level == get_level(hit, checks)
      diff == duration_sub(BASE_FIGURE_LOWERING_DURATION, level.value * 10)
  IN  IF level.panic \/ diff.panic
      THEN [panic |-> TRUE, ms |-> 0]
      ELSE [panic |-> FALSE, ms |-> max(diff.ms, MIN_FIGURE_LOWERING_DURATION)]

\* A faulty drain, returning the code of every key event: C17 fails of it.
collect_all_key_codes(pending) ==
  LET events_buffer == SelectSeq(pending, LAMBDA ev : ev.event = "Key")
  IN  [i \in 1..Len(events_buffer) |-> events_buffer[i].code]

\* collect_last_released_keys when every poll and read succeeds: the key
\* events among the pending events are buffered in arrival order, then the
\* codes of the releases among them are returned.
collect_last_released_keys(pending) ==
  LET events_buffer == SelectSeq(pending, LAMBDA ev : ev.event = "Key")
      released == SelectSeq(events_buffer, LAMBDA ev : ev.kind = "Release")
  IN  [i \in 1..Len(released) |-> released[i].code]

(***************************************************************************)
(* GameState::update on a record g of the fields it writes                 *)
(* (is_running, position, rotation, last_figure_lowering_time) and two     *)
(* flags: returned (the early return of the Esc arm) and panic.            *)
(***************************************************************************)
\* i8 `+= d` on a coordinate: a panic when the build checks overflow, the
\* wrapped sum otherwise.
add_assign_i8(g, field, d, checks) ==
  LET v == g.position[field] + d
  IN  IF OverflowsI8(v) /\ checks
      THEN [g EXCEPT !.panic = TRUE]
      ELSE [g EXCEPT !.position[field] = WrapI8(v)]

\* A faulty Esc arm, without its return: C1 fails of it.
arm_Esc_without_return(g) == [g EXCEPT !.is_running = FALSE]

\* KeyCode::Esc => { self.stop(); return Ok(()); }
arm_Esc(g) == [g EXCEPT !.is_running = FALSE, !.returned = TRUE]

\* KeyCode::Down => self.current_figure_position.y += 1
arm_Down(g, checks) == add_assign_i8(g, "y", 1, checks)

\* KeyCode::Left => self.current_figure_position.x -= 1
arm_Left(g, checks) == add_assign_i8(g, "x", -1, checks)

\* KeyCode::Right => self.current_figure_position.x += 1
arm_Right(g, checks) == add_assign_i8(g, "x", 1, checks)

\* KeyCode::Char('q') => self.rotate_current_figure(false)
arm_q(g) == [g EXCEPT !.rotation = rotate_current_figure(g.rotation, FALSE)]

\* KeyCode::Char('e') => self.rotate_current_figure(true)
arm_e(g) == [g EXCEPT !.rotation = rotate_current_figure(g.rotation, TRUE)]

\* A faulty default arm, returning from update: C4 fails of it.
arm_default_returns(g) == [g EXCEPT !.returned = TRUE]

\* _ => ()
arm_default(g) == g

\* The match on one key code.
match_key_code(g, key_code, checks) ==
  CASE key_code = "Esc" -> arm_Esc(g)
    [] key_code = "Down" -> arm_Down(g, checks)
    [] key_code = "Left" -> arm_Left(g, checks)
    [] key_code = "Right" -> arm_Right(g, checks)
    [] key_code = "q" -> arm_q(g)
    [] key_code = "e" -> arm_e(g)
    [] OTHER -> arm_default(g)

\* A faulty loop, applying the last released key alone: C3 fails of it.
process_last_key_only(g, keys, i, checks) ==
  IF i > Len(keys) THEN g ELSE match_key_code(g, keys[Len(keys)], checks)

\* for key_code in keys_to_process.iter(), from index i on; the loop ends at
\* the early return or at a panic.
RECURSIVE process_keys(_, _, _, _)
process_keys(g, keys, i, checks) ==
  IF i > Len(keys) \/ g.returned \/ g.panic
  THEN g
  ELSE process_keys(match_key_code(g, keys[i], checks), keys, i + 1, checks)

\* A faulty gravity step, resetting the timer at the threshold already: C19
\* fails of it.
lower_figure_at_threshold(g, frame_start, hit, checks) ==
  LET duration == get_figure_lowering_duration(hit, checks)
  IN  IF duration.panic
      THEN [g EXCEPT !.panic = TRUE]
      ELSE IF frame_start - g.last_figure_lowering_time >= duration.ms
           THEN [g EXCEPT !.last_figure_lowering_time = frame_start]
           ELSE g

\* The gravity step: the timer is reset when more than the lowering
\* duration has passed since the last reset. The position is not changed
\* (the `y += 1` of the step is commented out in the source).
lower_figure(g, frame_start, hit, checks) ==
  LET duration == get_figure_lowering_duration(hit, checks)
  IN  IF duration.panic
      THEN [g EXCEPT !.panic = TRUE]
      ELSE IF frame_start - g.last_figure_lowering_time > duration.ms
           THEN [g EXCEPT !.last_figure_lowering_time = frame_start]
           ELSE g

\* GameState::update after collect_last_released_keys has returned Ok.
update(g, keys, frame_start, hit, checks) ==
  LET after_keys == process_keys(g, keys, 1, checks)
  IN  IF after_keys.returned \/ after_keys.panic
      THEN after_keys
      ELSE lower_figure(after_keys, frame_start, hit, checks)

(***************************************************************************)
(* The dual-column composition at the end of GameState::update_gui. A line *)
(* is the sequence of its chars.                                           *)
(***************************************************************************)
\* StringsVecForUI::required_width: the largest chars().count(), 0 for no
\* lines.
RECURSIVE required_width(_)
required_width(lines) ==
  IF lines = <<>> THEN 0 ELSE max(Len(Head(lines)), required_width(Tail(lines)))

\* n spaces
spaces(n) == [i \in 1..n |-> " "]

\* format!("{:<width$}", text): text, then spaces up to width chars; a text
\* longer than width is kept whole.
left_justified(text, width) ==
  IF Len(text) >= width THEN text ELSE text \o spaces(width - Len(text))

\* statistics_part.iter().zip_longest(&board_part) and the match on each
\* pair: (stat, board), with "" for the side that has run out.
zip_longest(stat_lines, board_lines) ==
  [i \in 1..max(Len(stat_lines), Len(board_lines)) |->
     <<IF i <= Len(stat_lines) THEN stat_lines[i] ELSE <<>>,
       IF i <= Len(board_lines) THEN board_lines[i] ELSE <<>> >>]

\* A faulty row, with one separating space: C8 fails of it.
format_row_one_space(stat, board, stat_part_width, board_part_width) ==
  left_justified(stat, stat_part_width) \o <<" ">>
    \o left_justified(board, board_part_width)

\* format!("{:<stat_part_width$}  {:<board_part_width$}", stat, board)
format_row(stat, board, stat_part_width, board_part_width) ==
  left_justified(stat, stat_part_width) \o <<" ", " ">>
    \o left_justified(board, board_part_width)

\* The rows the loop hands to Print, in order, when no terminal call fails.
dual_column_rows(stat_lines, board_lines) ==
  LET stat_part_width == required_width(stat_lines)
      board_part_width == required_width(board_lines)
      pairs == zip_longest(stat_lines, board_lines)
  IN  [i \in 1..Len(pairs) |->
         format_row(pairs[i][1], pairs[i][2], stat_part_width, board_part_width)]

(***************************************************************************)
(* The state of a run of main.                                             *)
(***************************************************************************)
VARIABLES
  \* GameState
  is_running, current_figure, current_figure_position,
  current_figure_rotation, next_figure, last_figure_lowering_time,
  lines_hit, score, start_time, board,
  \* main and the frame in progress
  pc,                \* where main is
  result,            \* what main returned: "None" while it runs
  now,               \* the clock Instant::now() reads
  frame_start_time,  \* FrameUpdateData::frame_start_time of the frame
  keys_to_process,   \* the local of update: the released keys of the frame
  frame_log,         \* the calls of the frame in progress, in order
  frame_time,        \* nanoseconds the frame took, read at its end
  slept,             \* nanoseconds slept at the end of the last frame
  frames,            \* frames started so far
  events_read,       \* terminal events read so far
  \* the world around the process
  terminal,          \* raw mode, colors, cursor
  overflow_checks    \* the build: TRUE when integer overflow panics

\* The pure functions called on their own (the specifications at the end).
VARIABLES
  rotation_log,      \* the calls of rotate_current_figure made, in order
  lowering_call,     \* a call of get_figure_lowering_duration and its result
  statistics_part,   \* update_gui's statistics_part
  board_part,        \* update_gui's board_part
  printed,           \* the rows update_gui has handed to Print, in order
  gui_result,        \* what the composition loop of update_gui returned
  pending_events     \* the events the terminal holds for the drain to read

gameVars == <<is_running, current_figure, current_figure_position,
              current_figure_rotation, next_figure, last_figure_lowering_time,
              lines_hit, score, start_time, board>>
loopVars == <<pc, result, now, frame_start_time, keys_to_process, frame_log,
              frame_time, slept, frames, events_read, terminal, overflow_checks>>

callVars == <<rotation_log, lowering_call, statistics_part, board_part,
              printed, gui_result, pending_events>>

\* No pure function has been called on its own.
NoCalls ==
  /\ rotation_log = <<>>
  /\ lowering_call = [done |-> FALSE, panic |-> FALSE, ms |-> 0]
  /\ statistics_part = <<>>
  /\ board_part = <<>>
  /\ printed = <<>>
  /\ gui_result = "None"
  /\ pending_events = <<>>

\* MAX_FPS and FRAME_DURATION (nanoseconds): 1_000_000_000 / MAX_FPS as u64.
MAX_FPS == 60
FRAME_DURATION == 1000000000 \div MAX_FPS

\* Milliseconds between the starts of two frames (and between GameState::new
\* and the first frame) the clock is let to show: one frame budget rounded
\* up, exactly the lowering duration of level 1, and one millisecond more.
FrameGaps == {17, 2490, 2491}

\* The draws of Figure::get_random for (current_figure, next_figure) a run
\* is started with: two different variants, and one variant twice.
FigureDraws == {<<1, 7>>, <<4, 4>>}

\* Nanoseconds a frame's update and render are let to take: none, just
\* under, exactly and just over FRAME_DURATION.
FrameTimes == {0, FRAME_DURATION - 1, FRAME_DURATION, FRAME_DURATION + 1}

\* GameState::new, given the two figures drawn and the clock.
GameState_new(current, next, t) ==
  [is_running |-> TRUE,
   current_figure |-> current,
   current_figure_position |-> [x |-> 0, y |-> 0],
   current_figure_rotation |-> "South",
   next_figure |-> next,
   last_figure_lowering_time |-> t,
   lines_hit |-> 0,
   score |-> 0,
   start_time |-> t,
   board |-> Board_new([height |-> 15, width |-> 10])]

\* The fields of the game are those of the GameState value game.
GameIs(game) ==
  /\ is_running = game.is_running
  /\ current_figure = game.current_figure
  /\ current_figure_position = game.current_figure_position
  /\ current_figure_rotation = game.current_figure_rotation
  /\ next_figure = game.next_figure
  /\ last_figure_lowering_time = game.last_figure_lowering_time
  /\ lines_hit = game.lines_hit
  /\ score = game.score
  /\ start_time = game.start_time
  /\ board = game.board

\* main before on_programm_enter: the terminal untouched, no frame started.
MainStarts(checks) ==
  /\ pc = "on_programm_enter"
  /\ result = "None"
  /\ now = 0
  /\ frame_start_time = 0
  /\ keys_to_process = <<>>
  /\ frame_log = <<>>
  /\ frame_time = 0
  /\ slept = 0
  /\ frames = 0
  /\ events_read = 0
  /\ terminal = [raw_mode |-> FALSE, colors_set |-> FALSE, cursor_hidden |-> FALSE]
  /\ overflow_checks = checks

(***************************************************************************)
(* main, one action per step of it.                                        *)
(***************************************************************************)
\* on_programm_enter: enable_raw_mode, Clear, SetColors, Hide, each of which
\* can fail; fail_at is the call that fails, 0 when none does. main returns
\* the error at once.
OnProgrammEnter(fail_at) ==
  /\ pc = "on_programm_enter"
  /\ terminal' = [raw_mode |-> fail_at = 0 \/ fail_at > 1,
                  colors_set |-> fail_at = 0 \/ fail_at > 3,
                  cursor_hidden |-> fail_at = 0]
  /\ pc' = IF fail_at = 0 THEN "while" ELSE "returned"
  /\ result' = IF fail_at = 0 THEN result ELSE "Err"
  /\ UNCHANGED <<now, frame_start_time, keys_to_process, frame_log, frame_time, slept,
                 frames, events_read, overflow_checks>>
  /\ UNCHANGED gameVars
  /\ UNCHANGED callVars

\* while game.is_running(), true: the frame starts and reads the clock.
FrameStart(gap) ==
  /\ pc = "while"
  /\ is_running
  /\ frames < MaxFrames
  /\ now' = now + gap
  /\ frame_start_time' = now'
  /\ frames' = frames + 1
  /\ frame_log' = <<>>
  /\ frame_time' = 0
  /\ slept' = 0
  /\ pc' = "update"
  /\ UNCHANGED <<result, keys_to_process, events_read, terminal, overflow_checks>>
  /\ UNCHANGED gameVars
  /\ UNCHANGED callVars

\* A faulty loop condition, leaving the loop while the game runs: C13 fails
\* of it.
LoopExit_while_running ==
  /\ pc = "while"
  /\ pc' = "on_programm_exit"
  /\ UNCHANGED <<result, now, frame_start_time, keys_to_process, frame_log,
                 frame_time, slept, frames, events_read, terminal,
                 overflow_checks>>
  /\ UNCHANGED gameVars
  /\ UNCHANGED callVars

\* while game.is_running(), false: the loop is left.
LoopExit ==
  /\ pc = "while"
  /\ ~is_running
  /\ pc' = "on_programm_exit"
  /\ UNCHANGED <<result, now, frame_start_time, keys_to_process, frame_log,
                 frame_time, slept, frames, events_read, terminal,
                 overflow_checks>>
  /\ UNCHANGED gameVars
  /\ UNCHANGED callVars

\* game.update(..)? with every poll and read of the drain succeeding;
\* pending are the events the terminal holds at the poll. A panic (an
\* overflow in a build that checks it) ends the process where it happens.
Update(pending) ==
  /\ pc = "update"
  /\ LET keys == collect_last_released_keys(pending)
         g == update([is_running |-> is_running,
                      position |-> current_figure_position,
                      rotation |-> current_figure_rotation,
                      last_figure_lowering_time |-> last_figure_lowering_time,
                      returned |-> FALSE,
                      panic |-> FALSE],
                     keys, frame_start_time, lines_hit, overflow_checks)
     IN  /\ keys_to_process' = keys
         /\ is_running' = g.is_running
         /\ current_figure_position' = g.position
         /\ current_figure_rotation' = g.rotation
         /\ last_figure_lowering_time' = g.last_figure_lowering_time
         /\ pc' = IF g.panic THEN "returned" ELSE "update_gui"
         /\ result' = IF g.panic THEN "Panic" ELSE result
  /\ events_read' = events_read + Len(pending)
  /\ frame_log' = Append(frame_log, "update")
  /\ UNCHANGED <<now, frame_start_time, frame_time, slept, frames, terminal, overflow_checks>>
  /\ UNCHANGED <<current_figure, next_figure, lines_hit, score, start_time, board>>
  /\ UNCHANGED callVars

\* A faulty error path, the frame going on after the failure: C12 fails of
\* it.
UpdateIoError_goes_on(failing_call) ==
  /\ pc = "update"
  /\ failing_call \in {"poll", "read"}
  /\ pc' = "update_gui"
  /\ result' = "Err"
  /\ frame_log' = Append(frame_log, "update")
  /\ UNCHANGED <<now, frame_start_time, keys_to_process, frame_time, slept, frames,
                 events_read, terminal, overflow_checks>>
  /\ UNCHANGED gameVars
  /\ UNCHANGED callVars

\* game.update(..)? when a poll or a read of the drain fails:
\* collect_last_released_keys returns the error and drops the events it has
\* buffered, update returns the error, main returns it.
UpdateIoError(failing_call) ==
  /\ pc = "update"
  /\ failing_call \in {"poll", "read"}
  /\ pc' = "returned"
  /\ result' = "Err"
  /\ frame_log' = Append(frame_log, "update")
  /\ UNCHANGED <<now, frame_start_time, keys_to_process, frame_time, slept, frames,
                 events_read, terminal, overflow_checks>>
  /\ UNCHANGED gameVars
  /\ UNCHANGED callVars

\* A faulty loop body, rendering only while the game runs: C15 fails of it.
UpdateGui_only_while_running(failed) ==
  /\ pc = "update_gui"
  /\ pc' = IF ~is_running THEN "while" ELSE IF failed THEN "returned" ELSE "sleep"
  /\ result' = IF failed /\ is_running THEN "Err" ELSE result
  /\ frame_log' = IF is_running THEN Append(frame_log, "update_gui") ELSE frame_log
  /\ keys_to_process' = <<>>
  /\ UNCHANGED <<now, frame_start_time, frame_time, slept, frames,
                 events_read, terminal, overflow_checks>>
  /\ UNCHANGED gameVars
  /\ UNCHANGED callVars

\* game.update_gui()?: the frame is printed, or a terminal call fails and
\* main returns the error. update_gui takes &self and writes no field of the
\* game; the rows it prints are those of dual_column_rows (SpecCompose).
UpdateGui(failed) ==
  /\ pc = "update_gui"
  /\ pc' = IF failed THEN "returned" ELSE "sleep"
  /\ result' = IF failed THEN "Err" ELSE result
  /\ frame_log' = Append(frame_log, "update_gui")
  /\ keys_to_process' = <<>>
  /\ UNCHANGED <<now, frame_start_time, frame_time, slept, frames, events_read, terminal,
                 overflow_checks>>
  /\ UNCHANGED gameVars
  /\ UNCHANGED callVars

\* A faulty end of frame, sleeping FRAME_DURATION whatever the frame took:
\* C16 fails of it.
EndOfFrame_sleeps_whole_budget(elapsed) ==
  /\ pc = "sleep"
  /\ frame_time' = elapsed
  /\ slept' = FRAME_DURATION
  /\ frame_log' = Append(frame_log, "sleep")
  /\ pc' = "while"
  /\ UNCHANGED <<result, now, frame_start_time, keys_to_process, frames,
                 events_read, terminal, overflow_checks>>
  /\ UNCHANGED gameVars
  /\ UNCHANGED callVars

\* The end of the frame: elapsed is what frame_start_time.elapsed() reads;
\* the rest of FRAME_DURATION is slept when there is one.
EndOfFrame(elapsed) ==
  /\ pc = "sleep"
  /\ frame_time' = elapsed
  /\ slept' = IF frame_time' < FRAME_DURATION
              THEN FRAME_DURATION - frame_time'
              ELSE 0
  /\ frame_log' = IF frame_time' < FRAME_DURATION
                  THEN Append(frame_log, "sleep")
                  ELSE frame_log
  /\ pc' = "while"
  /\ UNCHANGED <<result, now, frame_start_time, keys_to_process, frames,
                 events_read, terminal, overflow_checks>>
  /\ UNCHANGED gameVars
  /\ UNCHANGED callVars

\* on_programm_exit(..)?: ResetColor, disable_raw_mode; fail_at is the call
\* that fails, 0 when none does. Then main returns.
OnProgrammExit(fail_at) ==
  /\ pc = "on_programm_exit"
  /\ terminal' = [terminal EXCEPT
                    !.colors_set = IF fail_at = 1 THEN @ ELSE FALSE,
                    !.raw_mode = IF fail_at = 0 THEN FALSE ELSE @]
  /\ pc' = "returned"
  /\ result' = IF fail_at = 0 THEN "Ok" ELSE "Err"
  /\ UNCHANGED <<now, frame_start_time, keys_to_process, frame_log, frame_time, slept,
                 frames, events_read, overflow_checks>>
  /\ UNCHANGED gameVars
  /\ UNCHANGED callVars

vars == <<gameVars, loopVars, callVars>>

Init ==
  \E draw \in FigureDraws, checks \in BOOLEAN :
    /\ draw[1] \in get_random
    /\ draw[2] \in get_random
    /\ GameIs(GameState_new(draw[1], draw[2], 0))
    /\ MainStarts(checks)
    /\ NoCalls

Next ==
  \/ \E fail_at \in 0..4 : OnProgrammEnter(fail_at)
  \/ \E gap \in FrameGaps : FrameStart(gap)
  \/ LoopExit
  \/ \E pending \in SeqsUpTo(Events, MaxEvents - events_read) : Update(pending)
  \/ \E failing_call \in {"poll", "read"} : UpdateIoError(failing_call)
  \/ \E failed \in BOOLEAN : UpdateGui(failed)
  \/ \E elapsed \in FrameTimes : EndOfFrame(elapsed)
  \/ \E fail_at \in 0..2 : OnProgrammExit(fail_at)

Spec == Init /\ [][Next]_vars

(***************************************************************************)
(* rotate_current_figure called on its own, on a game in any orientation   *)
(* (South is the one GameState::new sets; releasing q or e reaches the     *)
(* others).                                                                *)
(***************************************************************************)
\* Calls of rotate_current_figure in one run of SpecRotate.
MaxRotations == 5

RotateInit ==
  \E draw \in FigureDraws, rotation \in Direction, checks \in BOOLEAN :
    /\ GameIs([GameState_new(draw[1], draw[2], 0)
                 EXCEPT !.current_figure_rotation = rotation])
    /\ MainStarts(checks)
    /\ NoCalls

\* self.rotate_current_figure(clockwise)
Rotate(clockwise) ==
  /\ Len(rotation_log) < MaxRotations
  /\ current_figure_rotation' =
       rotate_current_figure(current_figure_rotation, clockwise)
  /\ rotation_log' = Append(rotation_log,
                            [clockwise |-> clockwise,
                             before |-> current_figure_rotation,
                             after |-> current_figure_rotation'])
  /\ UNCHANGED <<is_running, current_figure, current_figure_position,
                 next_figure, last_figure_lowering_time, lines_hit, score,
                 start_time, board>>
  /\ UNCHANGED loopVars
  /\ UNCHANGED <<lowering_call, statistics_part, board_part, printed,
                 gui_result, pending_events>>

RotateNext == \E clockwise \in BOOLEAN : Rotate(clockwise)

SpecRotate == RotateInit /\ [][RotateNext]_vars

(***************************************************************************)
(* get_figure_lowering_duration called on its own, on a game with any      *)
(* lines_hit of the inputs below.                                          *)
(***************************************************************************)
\* The values of lines_hit from 0 up to this one are tried, and the two
\* largest of u16.
MaxLinesHit == 300

LinesHitInputs == (0..MaxLinesHit) \cup {U16_MAX - 1, U16_MAX}

LoweringInit ==
  \E draw \in FigureDraws, hit \in LinesHitInputs, checks \in BOOLEAN :
    /\ GameIs([GameState_new(draw[1], draw[2], 0) EXCEPT !.lines_hit = hit])
    /\ MainStarts(checks)
    /\ NoCalls

\* self.get_figure_lowering_duration()
LoweringDuration ==
  /\ ~lowering_call.done
  /\ LET duration == get_figure_lowering_duration(lines_hit, overflow_checks)
     IN  lowering_call' = [done |-> TRUE, panic |-> duration.panic, ms |-> duration.ms]
  /\ UNCHANGED gameVars
  /\ UNCHANGED loopVars
  /\ UNCHANGED <<rotation_log, statistics_part, board_part, printed,
                 gui_result, pending_events>>

LoweringNext == LoweringDuration

SpecLowering == LoweringInit /\ [][LoweringNext]_vars

(***************************************************************************)
(* The composition loop of update_gui run on its own, on any two           *)
(* sequences of lines of the inputs below.                                 *)
(***************************************************************************)
\* Lines of one part, and chars of one line.
MaxLines == 2
MaxLineLen == 2

StatLines == SeqsUpTo({"s"}, MaxLineLen)
BoardLines == SeqsUpTo({"b"}, MaxLineLen)

ComposeInit ==
  \E draw \in FigureDraws, checks \in BOOLEAN,
     stat_lines \in SeqsUpTo(StatLines, MaxLines),
     board_lines \in SeqsUpTo(BoardLines, MaxLines) :
    /\ GameIs(GameState_new(draw[1], draw[2], 0))
    /\ MainStarts(checks)
    /\ rotation_log = <<>>
    /\ lowering_call = [done |-> FALSE, panic |-> FALSE, ms |-> 0]
    /\ statistics_part = stat_lines
    /\ board_part = board_lines
    /\ printed = <<>>
    /\ gui_result = "None"
    /\ pending_events = <<>>

\* The loop over the pairs: each row is handed to Print, then the cursor is
\* moved to the next line. failing_call is the terminal call that fails,
\* counted from 1 over the two calls of each row, or 0 when none fails; the
\* loop returns at the failure.
ComposeLoop(failing_call) ==
  /\ gui_result = "None"
  /\ LET rows == dual_column_rows(statistics_part, board_part)
     IN  /\ failing_call \in 0..(2 * Len(rows))
         /\ printed' = IF failing_call = 0
                       THEN rows
                       ELSE SubSeq(rows, 1, failing_call \div 2)
         /\ gui_result' = IF failing_call = 0 THEN "Ok" ELSE "Err"
  /\ UNCHANGED gameVars
  /\ UNCHANGED loopVars
  /\ UNCHANGED <<rotation_log, lowering_call, statistics_part, board_part,
                 pending_events>>

ComposeNext == \E failing_call \in 0..(2 * MaxLines) : ComposeLoop(failing_call)

SpecCompose == ComposeInit /\ [][ComposeNext]_vars

(***************************************************************************)
(* The first frame's update on a terminal that holds any sequence of       *)
(* events of the inputs below when the drain starts.                       *)
(***************************************************************************)
\* Events pending at the drain of the frame.
MaxPending == 3

CollectInit ==
  \E draw \in FigureDraws, checks \in BOOLEAN,
     pending \in SeqsUpTo(Events, MaxPending) :
    /\ GameIs(GameState_new(draw[1], draw[2], 0))
    /\ MainStarts(checks)
    /\ rotation_log = <<>>
    /\ lowering_call = [done |-> FALSE, panic |-> FALSE, ms |-> 0]
    /\ statistics_part = <<>>
    /\ board_part = <<>>
    /\ printed = <<>>
    /\ gui_result = "None"
    /\ pending_events = pending

\* main up to the end of the first update, no terminal call failing.
CollectNext ==
  \/ OnProgrammEnter(0)
  \/ \E gap \in FrameGaps : FrameStart(gap)
  \/ Update(pending_events)

SpecCollect == CollectInit /\ [][CollectNext]_vars

(***************************************************************************)
(* main on a terminal that delivers one movement key many times over: the  *)
(* frames of a run in which the key is released again and again, with the  *)
(* releases of many frames gathered into one drain.                        *)
(***************************************************************************)
\* The lengths of a burst: one release, as many as lead from 0 to the
\* largest i8, and one more.
BurstLengths == {1, I8_MAX, I8_MAX + 1}

\* The pending events of a frame: a burst of releases of one movement key.
KeyBursts ==
  {[i \in 1..n |-> ReleaseEvent(code)] :
     n \in BurstLengths, code \in {"Down", "Left", "Right"}}

\* main with no terminal call failing and no Esc released.
BurstNext ==
  \/ OnProgrammEnter(0)
  \/ \E gap \in FrameGaps : FrameStart(gap)
  \/ \E pending \in KeyBursts : Update(pending)
  \/ UpdateGui(FALSE)
  \/ \E elapsed \in FrameTimes : EndOfFrame(elapsed)

SpecBurst == Init /\ [][BurstNext]_vars

(***************************************************************************)
(* What the properties below are stated with.                              *)
(***************************************************************************)
\* How many times key code k occurs in keys.
Count(keys, k) == Cardinality({i \in 1..Len(keys) : keys[i] = k})

\* Whether k occurs in keys.
Has(keys, k) == \E i \in 1..Len(keys) : keys[i] = k

\* The keys in front of the first Esc of a batch that holds one.
BeforeEsc(keys) ==
  SubSeq(keys, 1, (CHOOSE i \in 1..Len(keys) :
                     keys[i] = "Esc" /\ \A j \in 1..(i - 1) : keys[j] # "Esc") - 1)

\* The four orientations in clockwise order, and the orientation n quarter
\* turns clockwise of d (counter-clockwise for negative n).
Clockwise == <<"South", "East", "North", "West">>
Turned(d, n) ==
  LET i == CHOOSE k \in 1..4 : Clockwise[k] = d
  IN  Clockwise[((i - 1 + n) % 4) + 1]

\* A step of the run in which update was called and returned Ok.
UpdateReturnedOk == pc = "update" /\ pc' = "update_gui"

\* The gravity threshold is exceeded in the frame that is being updated.
GravityDue ==
  frame_start_time - last_figure_lowering_time
    > get_figure_lowering_duration(lines_hit, overflow_checks).ms

\* The frame in progress has run to its end: update, then update_gui, then
\* the sleep of what was left of FRAME_DURATION, if anything was.
FrameCompleted ==
  /\ frame_log = IF frame_time < FRAME_DURATION
                 THEN <<"update", "update_gui", "sleep">>
                 ELSE <<"update", "update_gui">>
  /\ slept = max(0, FRAME_DURATION - frame_time)

(***************************************************************************)
(* C1. A batch of released keys that holds Esc: after update is_running is *)
(* false, the keys in front of the first Esc have been applied, no key     *)
(* behind it has had an effect on position or orientation, and the gravity *)
(* check has not run: last_figure_lowering_time is as before, also when    *)
(* the threshold was exceeded.                                             *)
(***************************************************************************)
C1_CancelStopsTheFrame ==
  [][(UpdateReturnedOk /\ Has(keys_to_process', "Esc")) =>
       LET applied == BeforeEsc(keys_to_process')
       IN  /\ ~is_running'
           /\ current_figure_position'.x = current_figure_position.x
                + Count(applied, "Right") - Count(applied, "Left")
           /\ current_figure_position'.y = current_figure_position.y
                + Count(applied, "Down")
           /\ current_figure_rotation' =
                Turned(current_figure_rotation,
                       Count(applied, "e") - Count(applied, "q"))
           /\ last_figure_lowering_time' = last_figure_lowering_time]_vars

\* An update has returned after an Esc that had a key in front of it and a
\* key behind it, in a frame whose gravity threshold was exceeded.
C1_Witness ==
  /\ pc = "update_gui"
  /\ ~is_running
  /\ Len(keys_to_process) = 3
  /\ keys_to_process[1] = "Left"
  /\ keys_to_process[2] = "Esc"
  /\ keys_to_process[3] = "Down"
  /\ current_figure_position = [x |-> -1, y |-> 0]
  /\ frame_start_time - last_figure_lowering_time > 2490

(***************************************************************************)
(* C2. Gravity tick, as claimed: in a frame whose batch holds no Esc, when *)
(* frame_start_time - last_figure_lowering_time exceeds the lowering       *)
(* duration the piece goes down one row on top of the soft drops and the   *)
(* timer is set to frame_start_time; otherwise the gravity step changes    *)
(* neither.                                                                *)
(***************************************************************************)
C2_GravityTickLowersFigure ==
  [][(UpdateReturnedOk /\ ~Has(keys_to_process', "Esc")) =>
       IF GravityDue
       THEN /\ current_figure_position'.y = current_figure_position.y
                 + Count(keys_to_process', "Down") + 1
            /\ last_figure_lowering_time' = frame_start_time
       ELSE /\ current_figure_position'.y = current_figure_position.y
                 + Count(keys_to_process', "Down")
            /\ last_figure_lowering_time' = last_figure_lowering_time]_vars

(***************************************************************************)
(* C3. Keys released within one frame apply in the order received,         *)
(* cumulatively: for a batch without Esc, position and orientation after   *)
(* update are the fold of the per-key effects (Down y+1, Left x-1, Right   *)
(* x+1, q a quarter turn counter-clockwise, e a quarter turn clockwise),   *)
(* each key changing only its own field.                                   *)
(***************************************************************************)
C3_KeysApplyCumulatively ==
  [][(UpdateReturnedOk /\ ~Has(keys_to_process', "Esc")) =>
       /\ current_figure_position'.x = current_figure_position.x
            + Count(keys_to_process', "Right") - Count(keys_to_process', "Left")
       /\ current_figure_position'.y = current_figure_position.y
            + Count(keys_to_process', "Down")
       /\ current_figure_rotation' =
            Turned(current_figure_rotation,
                   Count(keys_to_process', "e") - Count(keys_to_process', "q"))
       /\ is_running' = is_running]_vars

\* Left, Left, Right released in one frame have left x one less than at the
\* start of the game, y and the orientation as they were.
C3_Witness ==
  /\ pc = "update_gui"
  /\ keys_to_process = <<"Left", "Left", "Right">>
  /\ frames = 1
  /\ current_figure_position = [x |-> -1, y |-> 0]
  /\ current_figure_rotation = "South"

(***************************************************************************)
(* C4. An unrecognized key code leaves position, orientation and           *)
(* is_running unchanged and stops neither the rest of the batch nor the    *)
(* gravity check: a batch with unrecognized keys in it has the effect of   *)
(* the batch without them, and a batch of unrecognized keys alone changes  *)
(* nothing but the gravity timer, which is reset when it is due.           *)
(***************************************************************************)
C4_UnrecognizedKeyIsIgnored ==
  [][(UpdateReturnedOk /\ Has(keys_to_process', "Up")) =>
       LET rest == SelectSeq(keys_to_process', LAMBDA k : k # "Up")
           applied == IF Has(rest, "Esc") THEN BeforeEsc(rest) ELSE rest
       IN  /\ is_running' = (is_running /\ ~Has(rest, "Esc"))
           /\ current_figure_position'.x = current_figure_position.x
                + Count(applied, "Right") - Count(applied, "Left")
           /\ current_figure_position'.y = current_figure_position.y
                + Count(applied, "Down")
           /\ current_figure_rotation' =
                Turned(current_figure_rotation,
                       Count(applied, "e") - Count(applied, "q"))
           /\ last_figure_lowering_time' =
                IF GravityDue /\ ~Has(rest, "Esc")
                THEN frame_start_time
                ELSE last_figure_lowering_time]_vars

\* An unrecognized key was released in front of Right, in a frame whose
\* gravity timer was due: Right has been applied and the timer reset.
C4_Witness ==
  /\ pc = "update_gui"
  /\ keys_to_process = <<"Up", "Right">>
  /\ is_running
  /\ current_figure_position = [x |-> 1, y |-> 0]
  /\ current_figure_rotation = "South"
  /\ frame_start_time > 2490
  /\ last_figure_lowering_time = frame_start_time

(***************************************************************************)
(* C5. The orientations form a 4-cycle: from every orientation four        *)
(* clockwise rotations in a row lead back to it and one, two or three do   *)
(* not; and clockwise and counter-clockwise undo each other, in either     *)
(* order, from every orientation.                                          *)
(***************************************************************************)
C5_RotationIsA4Cycle ==
  /\ \A i \in 1..Len(rotation_log), n \in 1..4 :
       (/\ i + n - 1 <= Len(rotation_log)
        /\ \A j \in i..(i + n - 1) : rotation_log[j].clockwise)
       => ((rotation_log[i + n - 1].after = rotation_log[i].before) <=> (n = 4))
  /\ \A i \in 1..(Len(rotation_log) - 1) :
       rotation_log[i].clockwise # rotation_log[i + 1].clockwise
       => rotation_log[i + 1].after = rotation_log[i].before

\* Four clockwise rotations have led from North back to North, and the
\* counter-clockwise one after them has undone the fourth.
C5_Witness ==
  /\ Len(rotation_log) = 5
  /\ \A j \in 1..4 : rotation_log[j].clockwise
  /\ ~rotation_log[5].clockwise
  /\ rotation_log[1].before = "North"
  /\ rotation_log[4].after = "North"
  /\ rotation_log[5].after = rotation_log[4].before

(***************************************************************************)
(* C6. rotate_current_figure is the transition table: clockwise South to   *)
(* East, East to North, North to West, West to South; counter-clockwise    *)
(* South to West, East to South, North to East, West to North; it is       *)
(* total, and its result is always one of the four orientations. A new     *)
(* game starts in South, so three clockwise rotations reach West and a     *)
(* fourth returns to South.                                                *)
(***************************************************************************)
C6_RotationTable ==
  LET cw == [South |-> "East", East |-> "North", North |-> "West", West |-> "South"]
      ccw == [South |-> "West", East |-> "South", North |-> "East", West |-> "North"]
      log == rotation_log
  IN  /\ current_figure_rotation \in Direction
      /\ \A i \in 1..Len(log) :
           /\ log[i].before \in Direction
           /\ log[i].after = IF log[i].clockwise THEN cw[log[i].before]
                                                 ELSE ccw[log[i].before]
      /\ GameState_new(1, 1, 0).current_figure_rotation = "South"
      /\ (/\ Len(log) >= 3
          /\ log[1].before = "South"
          /\ \A j \in 1..3 : log[j].clockwise) => log[3].after = "West"
      /\ (/\ Len(log) >= 4
          /\ log[1].before = "South"
          /\ \A j \in 1..4 : log[j].clockwise) => log[4].after = "South"

\* From South, as in a new game, four clockwise rotations have been made
\* and then a counter-clockwise one.
C6_Witness ==
  /\ Len(rotation_log) = 5
  /\ rotation_log[1].before = "South"
  /\ \A j \in 1..4 : rotation_log[j].clockwise
  /\ rotation_log[3].after = "West"
  /\ rotation_log[4].after = "South"
  /\ ~rotation_log[5].clockwise
  /\ current_figure_rotation = "West"

(***************************************************************************)
(* C7. For every level get_level can return, get_figure_lowering_duration  *)
(* returns max(2500ms - 10ms * level, 250ms) without failing: 2490ms at    *)
(* level 1, never less than 250ms, and 250ms at every level from 225 on,   *)
(* also above level 250 where 10ms * level exceeds the 2500ms base.        *)
(***************************************************************************)
C7_LoweringDurationSaturates ==
  lowering_call.done =>
    LET level == lines_hit + 1
    IN  /\ ~lowering_call.panic
        /\ lowering_call.ms =
             (IF 2500 - 10 * level >= 250 THEN 2500 - 10 * level ELSE 250)
        /\ lowering_call.ms >= 250
        /\ (level = 1 => lowering_call.ms = 2490)
        /\ (level >= 225 => lowering_call.ms = 250)

(***************************************************************************)
(* C8. The dual-column composition, for any statistics lines A and board   *)
(* lines B, when no terminal call fails: exactly max(|A|, |B|) rows are    *)
(* emitted; row i is A[i] (the empty string past the end of A) followed by *)
(* spaces up to widthA, the longest line of A, then two spaces, then B[i]  *)
(* (the empty string past the end of B) followed by spaces up to widthB;   *)
(* so every row is widthA + 2 + widthB long. The rows are a function of A  *)
(* and B: the same inputs give the same rows.                              *)
(***************************************************************************)
C8_DualColumnRows ==
  gui_result = "Ok" =>
    LET A == statistics_part
        B == board_part
        Width(L) == IF L = <<>> THEN 0
                    ELSE CHOOSE w \in {Len(L[i]) : i \in 1..Len(L)} :
                           \A i \in 1..Len(L) : Len(L[i]) <= w
        widthA == Width(A)
        widthB == Width(B)
        Line(L, i) == IF i <= Len(L) THEN L[i] ELSE <<>>
        n == IF Len(A) >= Len(B) THEN Len(A) ELSE Len(B)
    IN  /\ Len(printed) = n
        /\ \A i \in 1..n :
             LET a == Line(A, i)
                 b == Line(B, i)
                 row == printed[i]
             IN  /\ Len(row) = widthA + 2 + widthB
                 /\ \A k \in 1..Len(row) :
                      row[k] = IF k <= Len(a) THEN a[k]
                               ELSE IF k <= widthA + 2 THEN " "
                               ELSE IF k <= widthA + 2 + Len(b) THEN b[k - widthA - 2]
                               ELSE " "

\* Two statistics lines of different lengths and one shorter board line
\* have been composed: the second row pairs a statistics line with the
\* empty string, and the first row pads both columns.
C8_Witness ==
  /\ gui_result = "Ok"
  /\ statistics_part = << <<"s">>, <<"s", "s">> >>
  /\ board_part = << <<>>, <<"b", "b">>  >>
  /\ Len(printed) = 2
  /\ printed[1] = <<"s", " ", " ", " ", " ", " ">>
  /\ printed[2] = <<"s", "s", " ", " ", "b", "b">>

(***************************************************************************)
(* C9. For each of the 7 variants of Figure::VARIANTS the length of the    *)
(* cells bit-sequence is size.height * size.width.                         *)
(***************************************************************************)
C9_FigureCellsMatchArea ==
  /\ Len(VARIANTS) = 7
  /\ \A i \in DOMAIN VARIANTS \cup {current_figure, next_figure} :
       Len(VARIANTS[i].cells) = VARIANTS[i].size.height * VARIANTS[i].size.width

(***************************************************************************)
(* C10. The board is 15 rows by 10 columns, 150 cells, all clear, at       *)
(* construction and in every state a run reaches.                          *)
(***************************************************************************)
C10_BoardStaysClear ==
  /\ board.size = [height |-> 15, width |-> 10]
  /\ DOMAIN board.cells = 1..150
  /\ Len(board.cells) = board.size.height * board.size.width
  /\ \A i \in DOMAIN board.cells : board.cells[i] = 0

\* The second frame has been updated with the piece moved, turned and the
\* gravity timer reset.
C10_Witness ==
  /\ frames = 2
  /\ pc = "update_gui"
  /\ current_figure_position.y > 0
  /\ current_figure_rotation # "South"
  /\ last_figure_lowering_time > 0
  /\ Len(board.cells) = 150

(***************************************************************************)
(* C11. An error raised inside update or update_gui reaches main, and main *)
(* returns only after the terminal has been restored: on every exit path   *)
(* that follows a successful on_programm_enter, by cancellation or by      *)
(* error, the step in which main returns is on_programm_exit.              *)
(***************************************************************************)
C11_ExitRestoresTerminal ==
  [][(pc' = "returned" /\ pc # "on_programm_enter") =>
       /\ pc = "on_programm_exit"
       /\ result' \in {"Ok", "Err"}]_vars

(***************************************************************************)
(* C12. A poll or read that fails in a frame makes update return the error *)
(* with the game state as before the call; main returns the error from     *)
(* that frame: no render, no further frame, no second poll.                *)
(***************************************************************************)
C12_PollFailureIsFatal ==
  [][/\ (pc = "update" /\ result' = "Err") =>
          /\ gameVars' = gameVars
          /\ pc' = "returned"
          /\ frame_log' = <<"update">>
          /\ frames' = frames
          /\ events_read' = events_read
     /\ pc # "returned"]_vars

\* The drain has failed in the second frame of a game whose first frame
\* moved and turned the piece: main has returned the error after the one
\* update call of the frame, the game as the first frame left it.
C12_Witness ==
  /\ pc = "returned"
  /\ result = "Err"
  /\ frames = 2
  /\ frame_log = <<"update">>
  /\ is_running
  /\ current_figure_position = [x |-> 1, y |-> 1]
  /\ current_figure_rotation = "East"

(***************************************************************************)
(* C13. The cancel key is the only way to end a round: is_running goes     *)
(* from true to false only in an update whose batch of released keys holds *)
(* Esc, once false it stays false, and the loop goes on to the next frame  *)
(* whenever it finds the game running: it is left through its condition    *)
(* only after is_running has become false.                                 *)
(***************************************************************************)
C13_OnlyEscEndsTheRound ==
  [][/\ (is_running /\ ~is_running') =>
          (pc = "update" /\ pc' = "update_gui" /\ Has(keys_to_process', "Esc"))
     /\ (~is_running) => ~is_running'
     /\ (pc = "while" /\ is_running) => pc' = "update"
     /\ (pc' = "on_programm_exit") => (pc = "while" /\ ~is_running)]_vars

\* A first frame with two Right released and no Esc was followed by a
\* second frame; Esc released in the second has stopped the game.
C13_Witness ==
  /\ frames = 2
  /\ pc = "update_gui"
  /\ keys_to_process = <<"Esc">>
  /\ ~is_running
  /\ current_figure_position = [x |-> 2, y |-> 0]

(***************************************************************************)
(* C14. No line-clear, lock, score increment or next-piece promotion:      *)
(* lines_hit, score, current_figure, next_figure and start_time keep the   *)
(* values GameState::new gave them through every step, so the level is     *)
(* always 1 and the lowering duration always 2490 ms.                      *)
(***************************************************************************)
C14_NoScoringNoPromotion ==
  /\ [](/\ lines_hit = 0
        /\ score = 0
        /\ start_time = 0
        /\ get_level(lines_hit, overflow_checks) = [panic |-> FALSE, value |-> 1]
        /\ get_figure_lowering_duration(lines_hit, overflow_checks)
             = [panic |-> FALSE, ms |-> 2490])
  /\ [][/\ lines_hit' = lines_hit
        /\ score' = score
        /\ current_figure' = current_figure
        /\ next_figure' = next_figure
        /\ start_time' = start_time]_vars

\* Two frames have been run to their end, the piece moved and the gravity
\* timer reset on the way: the figures are those drawn at the start, no
\* line is counted and nothing scored.
C14_Witness ==
  /\ frames = 2
  /\ pc = "while"
  /\ is_running
  /\ current_figure_position # [x |-> 0, y |-> 0]
  /\ last_figure_lowering_time > 0
  /\ current_figure = 1
  /\ next_figure = 7
  /\ lines_hit = 0
  /\ score = 0

(***************************************************************************)
(* C15. Cancellation is cooperative: is_running is read at the top of an   *)
(* iteration only. In the frame in which Esc is handled update_gui and the *)
(* end of the frame, with its sleep of what is left of the budget, still   *)
(* run after update; then the loop is left with no further update or       *)
(* render call, and on_programm_exit runs after that.                      *)
(***************************************************************************)
C15_CancellationIsCooperative ==
  /\ (~is_running) =>
       pc \in {"update_gui", "sleep", "while", "on_programm_exit", "returned"}
  /\ (~is_running /\ pc = "update_gui") => frame_log = <<"update">>
  /\ (~is_running /\ pc = "sleep") => frame_log = <<"update", "update_gui">>
  /\ (~is_running /\ pc = "while") => FrameCompleted
  /\ (pc = "on_programm_exit") => (~is_running /\ FrameCompleted)
  /\ (result = "Ok") => (pc = "returned" /\ ~is_running /\ FrameCompleted)
  /\ (~is_running /\ pc = "returned" /\ result = "Err") =>
       \/ frame_log = <<"update", "update_gui">>
       \/ FrameCompleted

\* Esc was released in the second frame: the frame was rendered and slept
\* the nanosecond left of its budget, the loop was left and on_programm_exit
\* has put the terminal back.
C15_Witness ==
  /\ pc = "returned"
  /\ result = "Ok"
  /\ ~is_running
  /\ frames = 2
  /\ frame_log = <<"update", "update_gui", "sleep">>
  /\ frame_time = FRAME_DURATION - 1
  /\ slept = 1
  /\ ~terminal.raw_mode

(***************************************************************************)
(* C16. In every iteration of the frame loop update is called before       *)
(* update_gui, once each, and the one suspension is at the end of the      *)
(* frame: FRAME_DURATION - frame_time is slept when frame_time is less     *)
(* than FRAME_DURATION (a 60th of a second), nothing when the frame        *)
(* overran it; after either the loop goes on to the very next frame.       *)
(***************************************************************************)
C16_FrameOrderAndSleep ==
  /\ [](/\ FRAME_DURATION = 16666666
        /\ (pc = "update") => frame_log = <<>>
        /\ (pc = "update_gui") => frame_log = <<"update">>
        /\ (pc = "sleep") => (frame_log = <<"update", "update_gui">> /\ slept = 0)
        /\ (pc = "while" /\ frames > 0) => FrameCompleted
        /\ (frame_time >= FRAME_DURATION) =>
             (slept = 0 /\ frame_log = <<"update", "update_gui">>)
        /\ (pc = "while" /\ frames > 0 /\ frame_time < FRAME_DURATION) =>
             (slept = FRAME_DURATION - frame_time /\ slept > 0))
  /\ [][/\ (pc = "sleep") => (pc' = "while" /\ frames' = frames)
        /\ (pc = "while" /\ is_running) =>
             (pc' = "update" /\ frames' = frames + 1)]_vars

\* The second frame took a nanosecond more than FRAME_DURATION: it was
\* updated and rendered once, nothing was slept and the loop is back at
\* its condition.
C16_Witness ==
  /\ pc = "while"
  /\ is_running
  /\ frames = 2
  /\ frame_time = FRAME_DURATION + 1
  /\ slept = 0
  /\ frame_log = <<"update", "update_gui">>

(***************************************************************************)
(* C17. collect_last_released_keys drains every pending event and returns  *)
(* the key codes of the key-release events among them, in arrival order,   *)
(* duplicates kept; key presses and events that are not key events         *)
(* contribute nothing. A frame with no release among its pending events    *)
(* leaves position, orientation and is_running as they were.               *)
(***************************************************************************)
C17_OnlyReleasesAreCollected ==
  [][UpdateReturnedOk =>
       LET released == {i \in 1..Len(pending_events) :
                          /\ pending_events[i].event = "Key"
                          /\ pending_events[i].kind = "Release"}
           rank(i) == Cardinality({j \in released : j <= i})
       IN  /\ Len(keys_to_process') = Cardinality(released)
           /\ \A i \in released :
                keys_to_process'[rank(i)] = pending_events[i].code
           /\ events_read' = events_read + Len(pending_events)
           /\ (released = {}) =>
                /\ keys_to_process' = <<>>
                /\ current_figure_position' = current_figure_position
                /\ current_figure_rotation' = current_figure_rotation
                /\ is_running' = is_running]_vars

\* Left was released twice with a press of Esc in between: the batch is the
\* two Left, the piece is two columns to the left and the game runs on.
C17_Witness ==
  /\ pending_events =
       <<ReleaseEvent("Left"), PressEvent("Esc"), ReleaseEvent("Left")>>
  /\ pc = "update_gui"
  /\ keys_to_process = <<"Left", "Left">>
  /\ current_figure_position = [x |-> -2, y |-> 0]
  /\ is_running
  /\ events_read = 3

(***************************************************************************)
(* C18. The coordinates of the piece stay within the signed 8-bit range    *)
(* after each key of a batch is applied: no Down, Left or Right step of    *)
(* update overflows them, so update neither aborts nor wraps a coordinate  *)
(* to the opposite sign.                                                   *)
(***************************************************************************)
C18_PositionStaysInI8 ==
  [][(pc = "update" /\ result' # "Err") =>
       LET applied == IF Has(keys_to_process', "Esc")
                      THEN BeforeEsc(keys_to_process')
                      ELSE keys_to_process'
           x(n) == current_figure_position.x
                     + Count(SubSeq(applied, 1, n), "Right")
                     - Count(SubSeq(applied, 1, n), "Left")
           y(n) == current_figure_position.y
                     + Count(SubSeq(applied, 1, n), "Down")
       IN  /\ result' # "Panic"
           /\ \A n \in 0..Len(applied) :
                /\ x(n) \in I8_MIN..I8_MAX
                /\ y(n) \in I8_MIN..I8_MAX
           /\ current_figure_position' =
                [x |-> x(Len(applied)), y |-> y(Len(applied))]]_vars

(***************************************************************************)
(* C19. last_figure_lowering_time never decreases and is never later than  *)
(* the frame_start_time of the frame; it changes in the update of a frame  *)
(* only, at most once, and only to frame_start_time. A frame that starts   *)
(* exactly the lowering duration after the last reset does not reset it    *)
(* (the comparison is strict), and a frame that starts several periods     *)
(* late resets it once, to its own start: there are no catch-up ticks.     *)
(***************************************************************************)
C19_GravityTimerIsMonotone ==
  /\ [](last_figure_lowering_time <= frame_start_time)
  /\ [][LET duration ==
              get_figure_lowering_duration(lines_hit, overflow_checks).ms
            waited == frame_start_time - last_figure_lowering_time
        IN  /\ last_figure_lowering_time' >= last_figure_lowering_time
            /\ (last_figure_lowering_time' # last_figure_lowering_time) =>
                 /\ UpdateReturnedOk
                 /\ waited > duration
                 /\ last_figure_lowering_time' = frame_start_time
            /\ (UpdateReturnedOk /\ waited <= duration) =>
                 last_figure_lowering_time' = last_figure_lowering_time
            /\ (UpdateReturnedOk /\ waited > duration
                  /\ ~Has(keys_to_process', "Esc")) =>
                 last_figure_lowering_time' = frame_start_time]_vars

\* The first frame started 2490 ms after the game, exactly the lowering
\* duration, and left the timer at 0; the second started 4981 ms after the
\* last reset, more than two periods, and has set the timer to its start.
C19_Witness ==
  /\ frames = 2
  /\ pc = "update_gui"
  /\ is_running
  /\ frame_start_time = 4981
  /\ last_figure_lowering_time = 4981

====
